---- MODULE Spec2Model ----
(***************************************************************************)
(* State-machine model of the two benchmark programs of the repository:    *)
(*   src/src/gcd_benchmark.cpp  push-style: producer threads, a counting   *)
(*                              semaphore, completion blocks on serial     *)
(*                              dispatch queues;                           *)
(*   src/src/mq_benchmark.cpp   pull-style: producer and consumer threads  *)
(*                              around a POSIX message queue.              *)
(* Both share LatencyRecorder (reservoir sampling), the Stats counters and *)
(* the timed main loop.  The variable `program` says which of the two runs.*)
(* One step of the model is one access to shared state (an atomic, the     *)
(* mutex, the semaphore, the queue); the thread-local statements around it *)
(* are folded into that step.  A buffer that is not read again before it   *)
(* is overwritten or destroyed is put back to zeros at its last read.      *)
(* computePercentiles and the report of main are operators on the snapshot;*)
(* the doubles they compute with are rounded after every operation.        *)
(***************************************************************************)
EXTENDS Integers, Sequences, FiniteSets, Bags, TLC

\* ----------------------------------------------------------------- bounds
NumProducers == 2      \* largest cfg.producers
NumConsumers == 2      \* largest cfg.consumers (mqueue threads / GCD serial queues)
MaxMqThreads == 3      \* largest cfg.producers + cfg.consumers of an mqueue run
MaxSends == 2          \* loop iterations the producer threads start, in total
MaxReceives == 2       \* loop iterations the consumer threads start, in total
MaxHardErrors == 1     \* mq_timedsend / mq_timedreceive calls that fail with another errno, each
MaxClock == 1          \* largest value nowNs() returns
MaxCapacity == 2       \* largest capacity of the stand-alone recorder
MaxRunCapacity == 1    \* largest cfg.latencySample of a run of one of the programs
MaxInFlight == 2       \* largest cfg.maxInFlight
MaxMessages == 1       \* largest effective mq_maxmsg
MaxCalls == 4          \* record() calls made by the stand-alone recorder driver
MaxDuration == 1       \* largest cfg.durationSeconds
MaxPrintInterval == 1  \* largest cfg.printIntervalSeconds
MaxLoopDuration == 2   \* largest cfg.durationSeconds when the timed loop is studied
MaxLoopInterval == 3   \* largest cfg.printIntervalSeconds when the timed loop is studied
SignificandBits == 4   \* bits of the significand of a double (53 in the build)
MaxLen == 3            \* longest snapshot handed to computePercentiles on its own
MaxSample == 5         \* largest latency value of such a snapshot
MaxQuantile == 8       \* at() on its own is applied to the quantiles k / MaxQuantile

\* ------------------------------------------------------- program constants
SizeofMsgHeader == 16  \* sizeof(MsgHeader): two uint64_t

Producers == 1..NumProducers
Workers == 1..NumConsumers
MessageSizes == {SizeofMsgHeader - 8, SizeofMsgHeader}

VARIABLES
    program,               \* "gcd" | "mq"
    messageSize, capacity, maxInFlight, maxMessages, producers, consumers,
    durationSeconds, printIntervalSeconds,
    stopFlag, clock,
    sentMessages, sentBytes, recvMessages, recvBytes,
    sendErrors, recvErrors, sendEagain, recvEagain,
    samplesNs, seen, mtx,  \* LatencyRecorder; mtx = 0 free, w = held by worker w, -1 = main
    valueNs, index, pos,   \* record(): per-caller argument and locals
    ppc, seq, header, ret, \* producer: position, seq, buffer header, mq_timedsend result
    wpc, payload, n,       \* worker (consumer thread / serial queue): position, buffer, received size
    iter, witer,           \* loop iterations started so far by the producers / by the consumers
    spaceSem, rr, workerQueues,
    mq,
    mainPc, i, elapsed, exitStatus, sent, recv, latCopyNs,
    pctUs, summary, csvRow,\* the percentile pairs, the latency line of the summary, the CSV row
    atPct, atUs,           \* at(): its argument and its result, when applied on its own
    errnoP, errnoW,        \* errno of each producer / consumer thread
    sentSeqs, sendAttempts,\* history: what mq_timedsend accepted, how often it was called
    atStop,                \* history: the producers as an observer found them once stopFlag was set
    recorded               \* history: how often record() was called with each value

cfgVars == <<program, messageSize, capacity, maxInFlight, maxMessages,
             producers, consumers, durationSeconds, printIntervalSeconds>>
statVars == <<sentMessages, sentBytes, recvMessages, recvBytes,
              sendErrors, recvErrors, sendEagain, recvEagain>>
sendStatVars == <<sentMessages, sentBytes, sendErrors, sendEagain>>
recvStatVars == <<recvMessages, recvBytes, recvErrors, recvEagain>>
recVars == <<samplesNs, seen, mtx, valueNs, index, pos, recorded>>
prodVars == <<ppc, seq, iter, header, ret, errnoP, sentSeqs, sendAttempts>>
workVars == <<wpc, payload, n, errnoW, witer>>
gcdVars == <<spaceSem, rr, workerQueues>>
reportVars == <<pctUs, summary, csvRow, atPct, atUs>>
mainVars == <<mainPc, i, elapsed, exitStatus, sent, recv, latCopyNs, reportVars>>
vars == <<cfgVars, atStop, stopFlag, clock, statVars, recVars, prodVars, workVars,
          gcdVars, mq, mainVars>>

\* ---------------------------------------------------------------- helpers
Min(a, b) == IF a < b THEN a ELSE b

\* how often v occurs in the sequence s
CountIn(s, v) == Cardinality({k \in 1..Len(s) : s[k] = v})

RECURSIVE SumLen(_, _)
SumLen(f, S) == IF S = {} THEN 0
                ELSE LET x == CHOOSE y \in S : TRUE IN Len(f[x]) + SumLen(f, S \ {x})

\* MsgHeader as the zero-initialised buffer holds it
ZeroHeader == [sequence |-> 0, sendTimeNs |-> 0]

\* header != nullptr
HasHeader == messageSize >= SizeofMsgHeader

CarriesHeaderAlways(size) == size >= 0

\* payload.size() >= sizeof(MsgHeader), static_cast<size_t>(n) >= sizeof(MsgHeader)
CarriesHeader(size) == size >= SizeofMsgHeader

\* ------------------------------------------------------------------ double
\* A double is modelled as a binary floating-point number with a significand
\* of SignificandBits bits and round-to-nearest, ties-to-even, after every
\* operation: the value of [m |-> m, e |-> e] is m * 2^e, with
\* 2^(SignificandBits-1) <= m < 2^SignificandBits, or m = 0.  Only values >= 0
\* occur.  The exponent range is not bounded (no overflow, no subnormals).
\* The operations are functions, so that an argument is evaluated once.
Double == [m : Nat, e : Int]

Pow2[k \in Nat] == IF k = 0 THEN 1 ELSE 2 * Pow2[k - 1]

DZero == [m |-> 0, e |-> 0]

\* num / den rounded to the nearest integer, ties to even
IntRound[num \in Nat, den \in Nat] ==
    LET k == num \div den
        r2 == 2 * (num % den)
    IN IF r2 > den \/ (r2 = den /\ k % 2 = 1) THEN k + 1 ELSE k

\* (num / den) * 2^e rounded to a double, num > 0
DNormal[num \in Nat, den \in Nat, e \in Int] ==
    IF num >= Pow2[SignificandBits] * den THEN DNormal[num, 2 * den, e + 1]
    ELSE IF num < Pow2[SignificandBits - 1] * den THEN DNormal[2 * num, den, e - 1]
    ELSE IF IntRound[num, den] = Pow2[SignificandBits]
         THEN [m |-> Pow2[SignificandBits - 1], e |-> e + 1]
         ELSE [m |-> IntRound[num, den], e |-> e]

\* the double nearest to num / den
DRound[num \in Nat, den \in Nat] == IF num = 0 THEN DZero ELSE DNormal[num, den, 0]

\* static_cast<double>(k), and the conversion of a size_t operand
DFromInt[k \in Nat] == DRound[k, 1]

\* the double nearest to k * 2^e
DOfScaled[k \in Nat, e \in Int] ==
    IF e >= 0 THEN DRound[k * Pow2[e], 1] ELSE DRound[k, Pow2[-e]]

\* x in units of 2^e, for an e not above the exponent of x
DScaled[x \in Double, e \in Int] == IF x.m = 0 THEN 0 ELSE x.m * Pow2[x.e - e]

\* the smaller exponent of two doubles
DMinExp[x \in Double, y \in Double] ==
    IF x.m = 0 THEN y.e ELSE IF y.m = 0 THEN x.e
    ELSE IF x.e < y.e THEN x.e ELSE y.e

\* x + y, x - y (for x >= y), x * y, x / k for an integer-valued k, x <= y
DAdd[x \in Double, y \in Double] ==
    DOfScaled[DScaled[x, DMinExp[x, y]] + DScaled[y, DMinExp[x, y]], DMinExp[x, y]]
DSub[x \in Double, y \in Double] ==
    DOfScaled[DScaled[x, DMinExp[x, y]] - DScaled[y, DMinExp[x, y]], DMinExp[x, y]]
DMul[x \in Double, y \in Double] == DOfScaled[x.m * y.m, x.e + y.e]
DDiv[x \in Double, k \in Nat] ==
    IF x.e >= 0 THEN DRound[x.m * Pow2[x.e], k] ELSE DRound[x.m, k * Pow2[-x.e]]
DLeq[x \in Double, y \in Double] ==
    DScaled[x, DMinExp[x, y]] <= DScaled[y, DMinExp[x, y]]

\* static_cast<size_t>(x): truncation
DFloor[x \in Double] == IF x.e >= 0 THEN x.m * Pow2[x.e] ELSE x.m \div Pow2[-x.e]

\* the smallest integer not below x
DCeil[x \in Double] == IF DFromInt[DFloor[x]] = x THEN DFloor[x] ELSE DFloor[x] + 1

\* ------------------------------------------------------ computePercentiles
Insert[s \in Seq(Nat), v \in Nat] ==
    IF s = <<>> THEN <<v>>
    ELSE IF v <= Head(s) THEN <<v>> \o s
    ELSE <<Head(s)>> \o Insert[Tail(s), v]

\* sort(dataNs.begin(), dataNs.end())
Sort[s \in Seq(Nat)] == IF s = <<>> THEN <<>> ELSE Insert[Sort[Tail(s)], Head(s)]

\* const double pcts[] = {0.5, 0.90, 0.95, 0.99, 0.999}: the doubles nearest
\* to these decimal literals
Pcts == <<DRound[500, 1000], DRound[900, 1000], DRound[950, 1000],
          DRound[990, 1000], DRound[999, 1000]>>

\* the locals of the lambda at(pct), for a non-empty dataNs:
\* double pos = pct * (dataNs.size() - 1); size_t idx = static_cast<size_t>(pos);
AtPos(dataNs, pct) == DMul[pct, DFromInt[Len(dataNs) - 1]]
AtIdx(dataNs, pct) == DFloor[AtPos(dataNs, pct)]

AtIdx2Same(dataNs, pct) == AtIdx(dataNs, pct)

\* size_t idx2 = min(idx + 1, dataNs.size() - 1);
AtIdx2(dataNs, pct) ==
    IF AtIdx(dataNs, pct) + 1 < Len(dataNs) - 1
    THEN AtIdx(dataNs, pct) + 1 ELSE Len(dataNs) - 1

\* double frac = pos - idx;
AtFrac(dataNs, pct) == DSub[AtPos(dataNs, pct), DFromInt[AtIdx(dataNs, pct)]]

\* double vNs = dataNs[idx] * (1.0 - frac) + dataNs[idx2] * frac, with idx2
\* given; dataNs[k] of the code is dataNs[k + 1] here
Interpolate(dataNs, pct, idx2) ==
    DAdd[DMul[DFromInt[dataNs[AtIdx(dataNs, pct) + 1]],
              DSub[DFromInt[1], AtFrac(dataNs, pct)]],
         DMul[DFromInt[dataNs[idx2 + 1]], AtFrac(dataNs, pct)]]

\* auto at = [&](double pct) -> double { ...; return vNs / 1000.0; }
At(dataNs, pct) ==
    IF dataNs = <<>> THEN DZero
    ELSE DDiv[Interpolate(dataNs, pct, AtIdx2(dataNs, pct)), 1000]

ComputePercentilesZeros(dataNs, outPctToUs) ==
    [dataNs |-> Sort[dataNs],
     outPctToUs |-> outPctToUs \o
         [k \in 1..Len(Pcts) |-> [first |-> Pcts[k], second |-> At(Sort[dataNs], Pcts[k])]]]

\* computePercentiles(dataNs, outPctToUs): both arguments are references, the
\* result is what they hold on return
ComputePercentiles(dataNs, outPctToUs) ==
    IF dataNs = <<>> THEN [dataNs |-> dataNs, outPctToUs |-> outPctToUs]
    ELSE [dataNs |-> Sort[dataNs],
          outPctToUs |-> outPctToUs \o
              [k \in 1..Len(Pcts) |-> [first |-> Pcts[k],
                                        second |-> At(Sort[dataNs], Pcts[k])]]]

\* ------------------------------------------------- summary and CSV row
\* A number as << fixed << setprecision(2) and "%.2f" print it: hundredths,
\* rounded from the exact value of the double; NAN prints as "nan".
Fixed2[x \in Double] ==
    [nan |-> FALSE,
     hundredths |-> IF x.e >= 0 THEN x.m * Pow2[x.e] * 100
                    ELSE IntRound[x.m * 100, Pow2[-x.e]]]
NanText == [nan |-> TRUE, hundredths |-> 0]
ZeroText == [nan |-> FALSE, hundredths |-> 0]

\* nothing printed, nothing written yet
NotPrinted == [printed |-> FALSE, available |-> FALSE, values |-> <<>>]
NotWritten == [written |-> FALSE, fields |-> <<>>]

\* if (!pctUs.empty()) "latency-us (p50,...):" and the values
\* else "latency-us: not available (message-size < header)"
SummaryLatency(pcts) ==
    IF pcts # <<>>
    THEN [printed |-> TRUE, available |-> TRUE,
          values |-> [k \in 1..Len(pcts) |-> Fixed2[pcts[k].second]]]
    ELSE [printed |-> TRUE, available |-> FALSE, values |-> <<>>]

CsvUnavailableZero == ZeroText

\* double p50 = NAN, p90 = NAN, p95 = NAN, p99 = NAN, p999 = NAN;
CsvUnavailable == NanText

\* if (pctUs.size() >= 5) { p50 = pctUs[0].second; ... }; fprintf "%.2f" x 5
CsvPercentiles(pcts) ==
    IF Len(pcts) >= 5
    THEN [k \in 1..5 |-> Fixed2[pcts[k].second]]
    ELSE [k \in 1..5 |-> CsvUnavailable]

\* what main does with the copy of the reservoir: computePercentiles, the
\* latency line of the summary, and the CSV row if cfg.csvPath is given and
\* fopen() succeeds
Report(copy) ==
    \E r \in {ComputePercentiles(copy, <<>>)}, csv \in BOOLEAN :
       /\ latCopyNs' = r.dataNs
       /\ pctUs' = r.outPctToUs
       /\ summary' = SummaryLatency(r.outPctToUs)
       /\ csvRow' = IF csv
                    THEN [written |-> TRUE, fields |-> CsvPercentiles(r.outPctToUs)]
                    ELSE NotWritten
       /\ UNCHANGED <<atPct, atUs>>

\* ------------------------------------------------- LatencyRecorder::record
\* Positions of a record() call: rec_fetch (about to fetch_add), rec_lock_fill
\* and rec_fill (the index < capacity branch, before and inside the lock),
\* rec_draw and rec_rng (before and inside dist(rng), which runs without the
\* lock), rec_lock_put and rec_put (the overwrite, before and inside the lock).
\* samplesNs[k] of the code is samplesNs[k + 1] here.

LessThanCapacityOffByOne(x) == x <= capacity
LessThanCapacityStrict(x) == x + 1 < capacity

\* the comparisons `index < capacity`, `samplesNs.size() < capacity`, `pos < capacity`
LessThanCapacity(x) == x < capacity

\* where the caller of record() continues
AfterRecord == IF mainPc = "harness" THEN "idle"
               ELSE IF program = "gcd" THEN "signal" ELSE "loop"

\* record() returns: its argument and locals go out of scope
RecReturn(w) ==
    /\ valueNs' = [valueNs EXCEPT ![w] = 0]
    /\ index' = [index EXCEPT ![w] = 0]
    /\ pos' = [pos EXCEPT ![w] = 0]

\* uint64_t index = seen.fetch_add(1); if (capacity == 0) return; if (index < capacity) ...
RecFetch(w) ==
    /\ wpc[w] = "rec_fetch"
    /\ seen' = seen + 1
    /\ IF capacity = 0
       THEN /\ wpc' = [wpc EXCEPT ![w] = AfterRecord]
            /\ RecReturn(w)
       ELSE /\ wpc' = [wpc EXCEPT ![w] = IF LessThanCapacity(seen)
                                          THEN "rec_lock_fill" ELSE "rec_draw"]
            /\ index' = [index EXCEPT ![w] = seen]
            /\ UNCHANGED <<valueNs, pos>>
    /\ UNCHANGED <<cfgVars, atStop, stopFlag, clock, statVars, samplesNs, mtx, recorded,
                   prodVars, payload, n, errnoW, witer, gcdVars, mq, mainVars>>

\* lock_guard<mutex> lock(mtx) of the index < capacity branch
RecLockFill(w) ==
    /\ wpc[w] = "rec_lock_fill"
    /\ mtx = 0
    /\ mtx' = w
    /\ wpc' = [wpc EXCEPT ![w] = "rec_fill"]
    /\ UNCHANGED <<cfgVars, atStop, stopFlag, clock, statVars, samplesNs, seen, valueNs,
                   index, pos, recorded, prodVars, payload, n, errnoW, witer, gcdVars,
                   mq, mainVars>>

FillResultEarlyFull(s, v, r) ==
    IF Len(s) + 1 < capacity THEN Append(s, v) ELSE s

\* the buffer after the locked body of the index < capacity branch; r is the
\* draw of the else branch, which only mq_benchmark.cpp has
FillResult(s, v, r) ==
    IF LessThanCapacity(Len(s)) THEN Append(s, v)
    ELSE IF program = "mq" /\ LessThanCapacity(r) THEN [s EXCEPT ![r + 1] = v]
    ELSE s

RecFill(w) ==
    /\ wpc[w] = "rec_fill"
    /\ mtx = w
    /\ \E r \in 0..index[w] : samplesNs' = FillResult(samplesNs, valueNs[w], r)
    /\ mtx' = 0
    /\ wpc' = [wpc EXCEPT ![w] = AfterRecord]
    /\ RecReturn(w)
    /\ UNCHANGED <<cfgVars, atStop, stopFlag, clock, statVars, seen, recorded, prodVars,
                   payload, n, errnoW, witer, gcdVars, mq, mainVars>>

\* uniform_int_distribution<uint64_t> dist(0, index); entering dist(rng)
RecDraw(w) ==
    /\ wpc[w] = "rec_draw"
    /\ wpc' = [wpc EXCEPT ![w] = "rec_rng"]
    /\ UNCHANGED <<cfgVars, atStop, stopFlag, clock, statVars, samplesNs, seen, mtx,
                   valueNs, index, pos, recorded, prodVars, payload, n, errnoW, witer,
                   gcdVars, mq, mainVars>>

\* uint64_t pos = dist(rng); if (pos < capacity) ...
RecRng(w) ==
    /\ wpc[w] = "rec_rng"
    /\ \E r \in 0..index[w] :
        IF LessThanCapacity(r)
        THEN /\ pos' = [pos EXCEPT ![w] = r]
             /\ wpc' = [wpc EXCEPT ![w] = "rec_lock_put"]
             /\ UNCHANGED <<valueNs, index>>
        ELSE /\ wpc' = [wpc EXCEPT ![w] = AfterRecord]
             /\ RecReturn(w)
    /\ UNCHANGED <<cfgVars, atStop, stopFlag, clock, statVars, samplesNs, seen, mtx,
                   recorded, prodVars, payload, n, errnoW, witer, gcdVars, mq, mainVars>>

\* lock_guard<mutex> lock(mtx) of the overwrite
RecLockPut(w) ==
    /\ wpc[w] = "rec_lock_put"
    /\ mtx = 0
    /\ mtx' = w
    /\ wpc' = [wpc EXCEPT ![w] = "rec_put"]
    /\ UNCHANGED <<cfgVars, atStop, stopFlag, clock, statVars, samplesNs, seen, valueNs,
                   index, pos, recorded, prodVars, payload, n, errnoW, witer, gcdVars,
                   mq, mainVars>>

\* if (pos < samplesNs.size()) samplesNs[pos] = valueNs;
PutResult(s, v, r) == IF r < Len(s) THEN [s EXCEPT ![r + 1] = v] ELSE s

RecPut(w) ==
    /\ wpc[w] = "rec_put"
    /\ mtx = w
    /\ samplesNs' = PutResult(samplesNs, valueNs[w], pos[w])
    /\ mtx' = 0
    /\ wpc' = [wpc EXCEPT ![w] = AfterRecord]
    /\ RecReturn(w)
    /\ UNCHANGED <<cfgVars, atStop, stopFlag, clock, statVars, seen, recorded, prodVars,
                   payload, n, errnoW, witer, gcdVars, mq, mainVars>>

Record(w) == \/ RecFetch(w) \/ RecLockFill(w) \/ RecFill(w)
             \/ RecDraw(w) \/ RecRng(w) \/ RecLockPut(w) \/ RecPut(w)

\* a caller enters record(v)
EnterRecord(w, v) ==
    /\ valueNs' = [valueNs EXCEPT ![w] = v]
    /\ recorded' = [recorded EXCEPT ![v] = @ + 1]
    /\ wpc' = [wpc EXCEPT ![w] = "rec_fetch"]

\* ------------------------------------- stand-alone driver of LatencyRecorder
\* Threads that do nothing but call record() with any value: the recorder
\* under "any number of concurrent record() calls".
Call(w) ==
    /\ mainPc = "harness"
    /\ wpc[w] = "idle"
    /\ seen < MaxCalls
    /\ \E v \in 0..MaxClock : EnterRecord(w, v)
    /\ UNCHANGED <<cfgVars, atStop, stopFlag, clock, statVars, samplesNs, seen, mtx,
                   index, pos, prodVars, payload, n, errnoW, witer, gcdVars, mq, mainVars>>

\* ------------------------------------------------------------------ clock
\* the values nowNs() may return: CLOCK_MONOTONIC never goes back
NowNs == clock..MaxClock

\* ------------------------------------------- producer loop (both programs)
\* while (!stopFlag.load()) fails: the producer function returns
ProducerExit(p) ==
    /\ ppc[p] = "loop"
    /\ stopFlag
    /\ ppc' = [ppc EXCEPT ![p] = "done"]
    /\ UNCHANGED <<cfgVars, atStop, stopFlag, clock, statVars, recVars, seq, iter, header,
                   ret, errnoP, sentSeqs, sendAttempts, workVars, gcdVars, mq,
                   mainVars>>

\* one more iteration starts: if (header) { header->sequence = seq++;
\* header->sendTimeNs = nowNs(); }  (the random payload bytes are not modelled:
\* nothing reads them)
ProducerBuild(p) ==
    /\ ppc[p] = "loop"
    /\ ~stopFlag
    /\ iter < MaxSends
    /\ iter' = iter + 1
    /\ IF HasHeader
       THEN \E t \in NowNs :
              /\ header' = [header EXCEPT ![p] = [sequence |-> seq[p], sendTimeNs |-> t]]
              /\ seq' = [seq EXCEPT ![p] = @ + 1]
              /\ clock' = t
       ELSE UNCHANGED <<header, seq, clock>>
    /\ ppc' = [ppc EXCEPT ![p] = IF program = "gcd" THEN "wait" ELSE "send"]
    /\ UNCHANGED <<cfgVars, atStop, stopFlag, statVars, recVars, ret, errnoP, sentSeqs,
                   sendAttempts, workVars, gcdVars, mq, mainVars>>

\* --------------------------------------------------- gcd_benchmark.cpp
SemWaitReturnsAtZero(sem) == sem >= 0

\* dispatch_semaphore_wait(spaceSem, DISPATCH_TIME_FOREVER) returns only when
\* it can decrement a positive value
SemWaitReturns(sem) == sem > 0

ProducerWait(p) ==
    /\ ppc[p] = "wait"
    /\ SemWaitReturns(spaceSem)
    /\ spaceSem' = spaceSem - 1
    /\ ppc' = [ppc EXCEPT ![p] = "dispatch"]
    /\ UNCHANGED <<cfgVars, atStop, stopFlag, clock, statVars, recVars, seq, iter, header,
                   ret, errnoP, sentSeqs, sendAttempts, workVars, rr, workerQueues,
                   mq, mainVars>>

\* idx = rr.fetch_add(1); q = workerQueues[idx % size]; payload = buffer;
\* dispatch_async(q, block)
ProducerDispatch(p) ==
    /\ ppc[p] = "dispatch"
    /\ rr' = rr + 1
    /\ LET q == (rr % consumers) + 1
       IN workerQueues' = [workerQueues EXCEPT
                             ![q] = Append(@, [hdr |-> header[p], size |-> messageSize])]
    /\ ppc' = [ppc EXCEPT ![p] = "count"]
    /\ header' = [header EXCEPT ![p] = ZeroHeader]
    /\ UNCHANGED <<cfgVars, atStop, stopFlag, clock, statVars, recVars, seq, iter, ret, errnoP, sentSeqs, sendAttempts, workVars, spaceSem, mq,
                   mainVars>>

\* stats.sentMessages.fetch_add(1); stats.sentBytes.fetch_add(cfg.messageSize)
\* (two adjacent atomic adds, taken as one step)
ProducerCountGcd(p) ==
    /\ program = "gcd"
    /\ ppc[p] = "count"
    /\ sentMessages' = sentMessages + 1
    /\ sentBytes' = sentBytes + messageSize
    /\ ppc' = [ppc EXCEPT ![p] = "loop"]
    /\ UNCHANGED <<cfgVars, atStop, stopFlag, clock, recvStatVars, sendErrors, sendEagain,
                   recVars, seq, iter, header, ret, errnoP, sentSeqs, sendAttempts,
                   workVars, gcdVars, mq, mainVars>>

\* a serial queue starts its next block: recvMessages.fetch_add(1);
\* recvBytes.fetch_add(payload.size()); if (payload.size() >= sizeof(MsgHeader)) ...
\* The process is gone once main has returned.
BlockStart(w) ==
    /\ program = "gcd"
    /\ mainPc # "done"
    /\ wpc[w] = "idle"
    /\ workerQueues[w] # <<>>
    /\ LET b == Head(workerQueues[w])
       IN /\ payload' = [payload EXCEPT ![w] = b.hdr]
          /\ recvBytes' = recvBytes + b.size
          /\ wpc' = [wpc EXCEPT ![w] = IF CarriesHeader(b.size) THEN "lat" ELSE "signal"]
    /\ workerQueues' = [workerQueues EXCEPT ![w] = Tail(@)]
    /\ recvMessages' = recvMessages + 1
    /\ UNCHANGED <<cfgVars, atStop, stopFlag, clock, sendStatVars, recvErrors, recvEagain,
                   recVars, prodVars, n, errnoW, witer, spaceSem, rr, mq, mainVars>>

LatencyIsRecordedStrict(recvNs, sendNs) == recvNs > sendNs

\* if (recvNs >= sendNs)
LatencyIsRecorded(recvNs, sendNs) == recvNs >= sendNs

\* recvNs = nowNs(); sendNs = h->sendTimeNs; if (recvNs >= sendNs)
\* latRecorder.record(recvNs - sendNs);   (block of gcd, consumerThread of mq)
Latency(w) ==
    /\ wpc[w] = "lat"
    /\ mainPc # "done"
    /\ \E recvNs \in NowNs :
        /\ clock' = recvNs
        /\ IF LatencyIsRecorded(recvNs, payload[w].sendTimeNs)
           THEN EnterRecord(w, recvNs - payload[w].sendTimeNs)
           ELSE /\ wpc' = [wpc EXCEPT ![w] = AfterRecord]
                /\ UNCHANGED <<valueNs, recorded>>
    /\ payload' = [payload EXCEPT ![w] = ZeroHeader]
    /\ UNCHANGED <<cfgVars, atStop, stopFlag, statVars, samplesNs, seen, mtx, index, pos,
                   prodVars, n, errnoW, witer, gcdVars, mq, mainVars>>

\* dispatch_semaphore_signal(spaceSem) at the end of the block
BlockSignal(w) ==
    /\ program = "gcd"
    /\ mainPc # "done"
    /\ wpc[w] = "signal"
    /\ spaceSem' = spaceSem + 1
    /\ wpc' = [wpc EXCEPT ![w] = "idle"]
    /\ UNCHANGED <<cfgVars, atStop, stopFlag, clock, statVars, recVars, prodVars, payload,
                   n, errnoW, witer,
                   rr, workerQueues, mq, mainVars>>

\* ---------------------------------------------------- mq_benchmark.cpp
\* errno values the code tells apart: the two it treats as would-block, and
\* EINTR for every other one
WouldBlock == {"EAGAIN", "ETIMEDOUT"}
\* the errno of a full or empty queue: EAGAIN with O_NONBLOCK, else ETIMEDOUT
\* (cfg.nonBlocking is not modelled: the code treats the two alike)
QueueErrno == "ETIMEDOUT"

\* mq_timedsend() puts the message on the queue
SendOk(p) ==
    /\ ppc[p] = "send"
    /\ Len(mq) < maxMessages
    /\ mq' = Append(mq, [hdr |-> header[p], size |-> messageSize])
    /\ ret' = [ret EXCEPT ![p] = 0]
    /\ sentSeqs' = [sentSeqs EXCEPT ![p] = Append(@, header[p].sequence)]
    /\ sendAttempts' = sendAttempts + 1
    /\ ppc' = [ppc EXCEPT ![p] = "count"]
    /\ header' = [header EXCEPT ![p] = ZeroHeader]
    /\ UNCHANGED <<cfgVars, atStop, stopFlag, clock, statVars, recVars, seq, iter, errnoP, workVars, gcdVars, mainVars>>

\* mq_timedsend() finds the queue full until its timeout (or at once, O_NONBLOCK)
SendWouldBlock(p) ==
    /\ ppc[p] = "send"
    /\ Len(mq) >= maxMessages
    /\ errnoP' = [errnoP EXCEPT ![p] = QueueErrno]
    /\ ret' = [ret EXCEPT ![p] = -1]
    /\ sendAttempts' = sendAttempts + 1
    /\ ppc' = [ppc EXCEPT ![p] = "count"]
    /\ header' = [header EXCEPT ![p] = ZeroHeader]
    /\ UNCHANGED <<cfgVars, atStop, stopFlag, clock, statVars, recVars, seq, iter, sentSeqs, workVars, gcdVars, mq, mainVars>>

\* mq_timedsend() fails with any other errno
SendError(p) ==
    /\ ppc[p] = "send"
    /\ sendErrors + Cardinality({q \in Producers : errnoP[q] = "EINTR"}) < MaxHardErrors
    /\ errnoP' = [errnoP EXCEPT ![p] = "EINTR"]
    /\ ret' = [ret EXCEPT ![p] = -1]
    /\ sendAttempts' = sendAttempts + 1
    /\ ppc' = [ppc EXCEPT ![p] = "count"]
    /\ header' = [header EXCEPT ![p] = ZeroHeader]
    /\ UNCHANGED <<cfgVars, atStop, stopFlag, clock, statVars, recVars, seq, iter, sentSeqs, workVars, gcdVars, mq, mainVars>>

CountsAsSentOnTimeout(r, e) == r = 0 \/ e = "ETIMEDOUT"

\* if (ret == 0)
CountsAsSent(r, e) == r = 0
\* else if (errno == EAGAIN || errno == ETIMEDOUT)
CountsAsEagain(r, e) == r # 0 /\ e \in WouldBlock
AfterSendRetryAtOnce(r, e) == IF r # 0 /\ e \in WouldBlock THEN "send" ELSE "loop"
AfterSendBreakOnError(r, e) == IF r # 0 /\ e \notin WouldBlock THEN "done" ELSE "loop"

\* where the producer goes after the counter and the backoff sleep
AfterSend(r, e) == "loop"

\* the if/else ladder after mq_timedsend(): one counter (sentBytes with
\* sentMessages, as one step), then the backoff sleep
ProducerCountMq(p) ==
    /\ program = "mq"
    /\ ppc[p] = "count"
    /\ IF CountsAsSent(ret[p], errnoP[p])
       THEN /\ sentMessages' = sentMessages + 1
            /\ sentBytes' = sentBytes + messageSize
            /\ UNCHANGED <<sendEagain, sendErrors>>
       ELSE IF CountsAsEagain(ret[p], errnoP[p])
       THEN /\ sendEagain' = sendEagain + 1
            /\ UNCHANGED <<sentMessages, sentBytes, sendErrors>>
       ELSE /\ sendErrors' = sendErrors + 1
            /\ UNCHANGED <<sentMessages, sentBytes, sendEagain>>
    /\ ppc' = [ppc EXCEPT ![p] = AfterSend(ret[p], errnoP[p])]
    /\ ret' = [ret EXCEPT ![p] = 0]
    /\ errnoP' = [errnoP EXCEPT ![p] = "none"]
    /\ UNCHANGED <<cfgVars, atStop, stopFlag, clock, recvStatVars, recVars, seq, iter,
                   header, sentSeqs, sendAttempts, workVars, gcdVars, mq, mainVars>>

\* while (!stopFlag.load()) fails: consumerThread returns
ConsumerExit(w) ==
    /\ program = "mq"
    /\ wpc[w] = "loop"
    /\ stopFlag
    /\ wpc' = [wpc EXCEPT ![w] = "done"]
    /\ UNCHANGED <<cfgVars, atStop, stopFlag, clock, statVars, recVars, prodVars, payload,
                   n, errnoW, witer, gcdVars, mq, mainVars>>

\* one more iteration starts
ConsumerBegin(w) ==
    /\ program = "mq"
    /\ wpc[w] = "loop"
    /\ ~stopFlag
    /\ witer < MaxReceives
    /\ witer' = witer + 1
    /\ wpc' = [wpc EXCEPT ![w] = "recv"]
    /\ UNCHANGED <<cfgVars, atStop, stopFlag, clock, statVars, recVars, prodVars, payload,
                   n, errnoW, gcdVars, mq, mainVars>>

\* mq_timedreceive() takes the oldest message (all are sent with priority 0)
ReceiveOk(w) ==
    /\ wpc[w] = "recv"
    /\ mq # <<>>
    /\ payload' = [payload EXCEPT ![w] = Head(mq).hdr]
    /\ n' = [n EXCEPT ![w] = Head(mq).size]
    /\ mq' = Tail(mq)
    /\ wpc' = [wpc EXCEPT ![w] = "count"]
    /\ UNCHANGED <<cfgVars, atStop, stopFlag, clock, statVars, recVars, prodVars, errnoW,
                   witer, gcdVars, mainVars>>

ReceiveNeverTimesOut(q) == FALSE

\* mq_timedreceive() gives up: the queue q stays empty until the absolute
\* timeout ts (now + 100 ms), or is empty with O_NONBLOCK
ReceiveTimesOut(q) == q = <<>>

\* mq_timedreceive() finds the queue empty until its timeout (or at once, O_NONBLOCK)
ReceiveWouldBlock(w) ==
    /\ wpc[w] = "recv"
    /\ ReceiveTimesOut(mq)
    /\ errnoW' = [errnoW EXCEPT ![w] = QueueErrno]
    /\ n' = [n EXCEPT ![w] = -1]
    /\ wpc' = [wpc EXCEPT ![w] = "count"]
    /\ UNCHANGED <<cfgVars, atStop, stopFlag, clock, statVars, recVars, prodVars, payload,
                   witer, gcdVars, mq, mainVars>>

\* mq_timedreceive() fails with any other errno
ReceiveError(w) ==
    /\ wpc[w] = "recv"
    /\ recvErrors + Cardinality({v \in Workers : errnoW[v] = "EINTR"}) < MaxHardErrors
    /\ errnoW' = [errnoW EXCEPT ![w] = "EINTR"]
    /\ n' = [n EXCEPT ![w] = -1]
    /\ wpc' = [wpc EXCEPT ![w] = "count"]
    /\ UNCHANGED <<cfgVars, atStop, stopFlag, clock, statVars, recVars, prodVars, payload,
                   witer, gcdVars, mq, mainVars>>

\* where the consumer goes after a failed receive and its backoff sleep
AfterReceiveFailure(e) == "loop"

\* the if/else ladder after mq_timedreceive(): one counter (recvBytes with
\* recvMessages, as one step); then the latency, if the message has a header
ConsumerCount(w) ==
    /\ program = "mq"
    /\ wpc[w] = "count"
    /\ IF n[w] >= 0
       THEN /\ recvMessages' = recvMessages + 1
            /\ recvBytes' = recvBytes + n[w]
            /\ UNCHANGED <<recvEagain, recvErrors>>
            /\ wpc' = [wpc EXCEPT ![w] = IF HasHeader /\ CarriesHeader(n[w])
                                           THEN "lat" ELSE "loop"]
       ELSE /\ IF errnoW[w] \in WouldBlock
               THEN /\ recvEagain' = recvEagain + 1
                    /\ UNCHANGED recvErrors
               ELSE /\ recvErrors' = recvErrors + 1
                    /\ UNCHANGED recvEagain
            /\ UNCHANGED <<recvMessages, recvBytes>>
            /\ wpc' = [wpc EXCEPT ![w] = AfterReceiveFailure(errnoW[w])]
    /\ errnoW' = [errnoW EXCEPT ![w] = "none"]
    /\ n' = [n EXCEPT ![w] = 0]
    /\ UNCHANGED <<cfgVars, atStop, stopFlag, clock, sendStatVars, recVars, prodVars,
                   payload, witer, gcdVars, mq, mainVars>>

\* ------------------------------------------------------------------- main
\* SIGINT / SIGTERM: onSignal() stores true to stopFlag
OnSignal ==
    /\ mainPc \in {"setup", "run", "join"}
    /\ ~stopFlag
    /\ stopFlag' = TRUE
    /\ UNCHANGED <<cfgVars, atStop, clock, statVars, recVars, prodVars, workVars, gcdVars,
                   mq, mainVars>>

\* mq_benchmark.cpp: mq_open() or mq_getattr() fails: return 2
SetupFails ==
    /\ mainPc = "setup"
    /\ mainPc' = "done"
    /\ exitStatus' = 2
    /\ UNCHANGED <<cfgVars, atStop, stopFlag, clock, statVars, recVars, prodVars, workVars,
                   gcdVars, mq, i, elapsed, sent, recv, latCopyNs,
                   reportVars>>

\* mq_benchmark.cpp: the queue is open; the consumer and producer threads start
SetupDone ==
    /\ mainPc = "setup"
    /\ mainPc' = "run"
    /\ ppc' = [p \in Producers |-> IF p <= producers THEN "loop" ELSE "none"]
    /\ wpc' = [w \in Workers |-> IF w <= consumers THEN "loop" ELSE "none"]
    /\ UNCHANGED <<cfgVars, atStop, stopFlag, clock, statVars, recVars, seq, iter, header,
                   ret, errnoP, sentSeqs, sendAttempts, payload, n, errnoW, witer,
                   gcdVars, mq, i, elapsed, exitStatus, sent, recv, latCopyNs,
                   reportVars>>

\* while (now() < endTime && !stopFlag.load())
TimedLoopRuns == elapsed < durationSeconds /\ ~stopFlag

\* one iteration of the timed loop: sleep_for(printIntervalSeconds), print
MainSleep ==
    /\ mainPc = "run"
    /\ TimedLoopRuns
    /\ elapsed' = elapsed + printIntervalSeconds
    /\ UNCHANGED <<cfgVars, atStop, stopFlag, clock, statVars, recVars, prodVars, workVars,
                   gcdVars, mq, mainPc, i, exitStatus, sent, recv, latCopyNs,
                   reportVars>>

\* the timed loop ends: stopFlag.store(true)
MainStop ==
    /\ mainPc = "run"
    /\ ~TimedLoopRuns
    /\ stopFlag' = TRUE
    /\ mainPc' = "join"
    /\ UNCHANGED <<cfgVars, atStop, clock, statVars, recVars, prodVars, workVars, gcdVars,
                   mq, i, elapsed, exitStatus, sent, recv, latCopyNs,
                   reportVars>>

AllJoinedNoWait == TRUE

\* for (auto& t : ...) t.join() returns: every thread main started has returned
AllJoined == /\ \A p \in 1..producers : ppc[p] = "done"
             /\ program = "mq" => \A w \in 1..consumers : wpc[w] = "done"

MainJoin ==
    /\ mainPc = "join"
    /\ AllJoined
    /\ mainPc' = IF program = "gcd" THEN "release" ELSE "collect"
    /\ UNCHANGED <<cfgVars, atStop, stopFlag, clock, statVars, recVars, prodVars, workVars,
                   gcdVars, mq, i, elapsed, exitStatus, sent, recv, latCopyNs,
                   reportVars>>

\* gcd: for (long i = 0; i < cfg.maxInFlight; ++i) dispatch_semaphore_signal(spaceSem)
MainRelease ==
    /\ mainPc = "release"
    /\ i < maxInFlight
    /\ spaceSem' = spaceSem + 1
    /\ i' = i + 1
    /\ mainPc' = IF i + 1 < maxInFlight THEN "release" ELSE "grace"
    /\ UNCHANGED <<cfgVars, atStop, stopFlag, clock, statVars, recVars, prodVars, workVars,
                   rr, workerQueues, mq, elapsed, exitStatus, sent, recv, latCopyNs,
                   reportVars>>

\* gcd: this_thread::sleep_for(chrono::milliseconds(200)) returns
MainGrace ==
    /\ mainPc = "grace"
    /\ mainPc' = "collect"
    /\ UNCHANGED <<cfgVars, atStop, stopFlag, clock, statVars, recVars, prodVars, workVars,
                   gcdVars, mq, i, elapsed, exitStatus, sent, recv, latCopyNs,
                   reportVars>>

\* sent = stats.sentMessages.load(); recv = stats.recvMessages.load(); ...
MainCollect ==
    /\ mainPc = "collect"
    /\ sent' = sentMessages
    /\ recv' = recvMessages
    /\ mainPc' = "snapshot"
    /\ UNCHANGED <<cfgVars, atStop, stopFlag, clock, statVars, recVars, prodVars, workVars,
                   gcdVars, mq, i, elapsed, exitStatus, latCopyNs,
                   reportVars>>

\* { lock_guard lock(latRecorder.mtx); latCopyNs = latRecorder.samplesNs; }
\* then computePercentiles, the summary, the CSV row and return 0
MainSnapshot ==
    /\ mainPc = "snapshot"
    /\ mtx = 0
    /\ Report(samplesNs)
    /\ exitStatus' = 0
    /\ mainPc' = "done"
    /\ UNCHANGED <<cfgVars, atStop, stopFlag, clock, statVars, recVars, prodVars, workVars,
                   gcdVars, mq, i, elapsed, sent, recv>>

Main == \/ SetupFails \/ SetupDone \/ MainSleep \/ MainStop \/ MainJoin
        \/ MainCollect \/ MainSnapshot
MainGcd == \/ MainSleep \/ MainStop \/ MainJoin \/ MainRelease \/ MainGrace
           \/ MainCollect \/ MainSnapshot

\* nobody has looked at the producers since stopFlag was set
NotObserved == [observed |-> FALSE, ppc |-> [p \in Producers |-> "none"],
                rr |-> 0, sendAttempts |-> 0]

InitState ==
    /\ messageSize \in MessageSizes
    /\ stopFlag = FALSE
    /\ atStop = NotObserved
    /\ clock = 0
    /\ sentMessages = 0 /\ sentBytes = 0 /\ recvMessages = 0 /\ recvBytes = 0
    /\ sendErrors = 0 /\ recvErrors = 0 /\ sendEagain = 0 /\ recvEagain = 0
    /\ samplesNs = <<>> /\ seen = 0 /\ mtx = 0
    /\ valueNs = [w \in Workers |-> 0]
    /\ index = [w \in Workers |-> 0]
    /\ pos = [w \in Workers |-> 0]
    /\ recorded = [v \in 0..MaxClock |-> 0]
    /\ seq = [p \in Producers |-> 0]
    /\ iter = 0
    /\ header = [p \in Producers |-> ZeroHeader]
    /\ ret = [p \in Producers |-> 0]
    /\ errnoP = [p \in Producers |-> "none"]
    /\ sentSeqs = [p \in Producers |-> <<>>]
    /\ sendAttempts = 0
    /\ payload = [w \in Workers |-> ZeroHeader]
    /\ n = [w \in Workers |-> 0]
    /\ errnoW = [w \in Workers |-> "none"]
    /\ witer = 0
    /\ rr = 0
    /\ workerQueues = [w \in Workers |-> <<>>]
    /\ mq = <<>>
    /\ i = 0 /\ elapsed = 0 /\ exitStatus = -1 /\ sent = 0 /\ recv = 0
    /\ pctUs = <<>>
    /\ summary = NotPrinted
    /\ csvRow = NotWritten
    /\ atPct = DZero /\ atUs = DZero

InitCommon ==
    /\ InitState
    /\ durationSeconds \in 1..MaxDuration
    /\ printIntervalSeconds \in 1..MaxPrintInterval

InitRec ==
    /\ InitCommon
    /\ latCopyNs = <<>>
    /\ program \in {"gcd", "mq"}
    /\ capacity \in 0..MaxCapacity
    /\ messageSize = SizeofMsgHeader
    /\ durationSeconds = 1 /\ printIntervalSeconds = 1
    /\ maxInFlight = 1 /\ maxMessages = 1
    /\ producers = 1 /\ consumers = NumConsumers
    /\ spaceSem = 0
    /\ ppc = [p \in Producers |-> "none"]
    /\ wpc = [w \in Workers |-> "idle"]
    /\ mainPc = "harness"

NextRec == \E w \in Workers : Call(w) \/ Record(w)

\* gcd_benchmark.cpp after the producer threads are started
InitGcd ==
    /\ InitCommon
    /\ latCopyNs = <<>>
    /\ program = "gcd"
    /\ capacity \in 0..MaxRunCapacity
    /\ maxInFlight \in 1..MaxInFlight
    /\ maxMessages = 1
    /\ producers \in 1..NumProducers
    /\ consumers \in 1..NumConsumers
    /\ spaceSem = maxInFlight    \* dispatch_semaphore_create(cfg.maxInFlight)
    /\ ppc = [p \in Producers |-> IF p <= producers THEN "loop" ELSE "none"]
    /\ wpc = [w \in Workers |-> IF w <= consumers THEN "idle" ELSE "none"]
    /\ mainPc = "run"

\* mq_benchmark.cpp after the configuration is validated, on an empty queue
InitMq ==
    /\ InitCommon
    /\ latCopyNs = <<>>
    /\ program = "mq"
    /\ capacity \in 0..MaxRunCapacity
    /\ maxMessages \in 1..MaxMessages
    /\ maxInFlight = 1
    /\ producers \in 1..NumProducers
    /\ consumers \in 1..NumConsumers
    /\ producers + consumers <= MaxMqThreads
    /\ spaceSem = 0
    /\ ppc = [p \in Producers |-> "none"]
    /\ wpc = [w \in Workers |-> "none"]
    /\ mainPc = "setup"

ProducerGcd(p) == \/ ProducerExit(p) \/ ProducerBuild(p) \/ ProducerWait(p)
                  \/ ProducerDispatch(p) \/ ProducerCountGcd(p)
Block(w) == BlockStart(w) \/ Latency(w) \/ Record(w) \/ BlockSignal(w)
NextGcd == \/ \E p \in Producers : ProducerGcd(p)
           \/ \E w \in Workers : Block(w)
           \/ MainGcd
           \/ OnSignal

ProducerMq(p) == \/ ProducerExit(p) \/ ProducerBuild(p) \/ SendOk(p)
                 \/ SendWouldBlock(p) \/ SendError(p) \/ ProducerCountMq(p)
Consumer(w) == \/ ConsumerExit(w) \/ ConsumerBegin(w) \/ ReceiveOk(w)
               \/ ReceiveWouldBlock(w) \/ ReceiveError(w) \/ ConsumerCount(w)
               \/ Latency(w) \/ Record(w)
NextMq == \/ \E p \in Producers : ProducerMq(p)
          \/ \E w \in Workers : Consumer(w)
          \/ Main
          \/ OnSignal

SpecGcd == InitGcd /\ [][NextGcd]_vars
SpecMq == InitMq /\ [][NextMq]_vars

\* Fair scheduling of the threads.  For gcd only the producer threads and main
\* are fair: whether a dispatched block ever runs is left open.
FairGcd == /\ \A p \in Producers : WF_vars(ProducerGcd(p))
           /\ WF_vars(MainGcd)
FairMq == /\ \A p \in Producers : WF_vars(ProducerMq(p))
          /\ \A w \in Workers : WF_vars(Consumer(w))
          /\ WF_vars(Main)
SpecGcdFair == SpecGcd /\ FairGcd
SpecMqFair == SpecMq /\ FairMq

SpecRec == InitRec /\ [][NextRec]_vars

\* --------------------------- computePercentiles and the report on their own
\* Any snapshot of at most MaxLen values up to MaxSample, in any order.
Snapshots == UNION {[1..len -> 0..MaxSample] : len \in 0..MaxLen}

InitPct ==
    /\ InitCommon
    /\ latCopyNs \in Snapshots
    /\ program \in {"gcd", "mq"}
    /\ capacity = MaxLen
    /\ messageSize = SizeofMsgHeader
    /\ durationSeconds = 1 /\ printIntervalSeconds = 1
    /\ maxInFlight = 1 /\ maxMessages = 1
    /\ producers = 1 /\ consumers = 1
    /\ spaceSem = 0
    /\ ppc = [p \in Producers |-> "none"]
    /\ wpc = [w \in Workers |-> "none"]
    /\ mainPc = "pct"

\* computePercentiles(latCopyNs, pctUs), the summary and the CSV row
PctReport ==
    /\ mainPc = "pct"
    /\ Report(latCopyNs)
    /\ mainPc' = "pct_done"
    /\ UNCHANGED <<cfgVars, atStop, stopFlag, clock, statVars, recVars, prodVars, workVars,
                   gcdVars, mq, i, elapsed, exitStatus, sent, recv>>

\* at(pct) on the sorted, non-empty data, for any quantile of the grid
PctAt ==
    /\ mainPc \in {"pct_done", "pct_at"}
    /\ latCopyNs # <<>>
    /\ \E k \in 0..MaxQuantile :
         /\ atPct' = DRound[k, MaxQuantile]
         /\ atUs' = At(latCopyNs, DRound[k, MaxQuantile])
    /\ mainPc' = "pct_at"
    /\ UNCHANGED <<cfgVars, atStop, stopFlag, clock, statVars, recVars, prodVars, workVars,
                   gcdVars, mq, i, elapsed, exitStatus, sent, recv, latCopyNs,
                   pctUs, summary, csvRow>>

NextPct == PctReport \/ PctAt
SpecPct == InitPct /\ [][NextPct]_vars

\* both programs
Init == InitGcd \/ InitMq
Next == NextGcd \/ NextMq
Spec == Init /\ [][Next]_vars

\* ------------------------------------------- the timed loop of main at length
\* Both programs with one producer and one consumer, over every duration up to
\* MaxLoopDuration and every print interval up to MaxLoopInterval.
InitLoop ==
    /\ InitState
    /\ latCopyNs = <<>>
    /\ durationSeconds \in 1..MaxLoopDuration
    /\ printIntervalSeconds \in 1..MaxLoopInterval
    /\ program \in {"gcd", "mq"}
    /\ capacity = 1
    /\ maxInFlight = 1 /\ maxMessages = 1
    /\ producers = 1 /\ consumers = 1
    /\ spaceSem = IF program = "gcd" THEN maxInFlight ELSE 0
    /\ ppc = [p \in Producers |->
                IF program = "gcd" /\ p <= producers THEN "loop" ELSE "none"]
    /\ wpc = [w \in Workers |->
                IF program = "gcd" /\ w <= consumers THEN "idle" ELSE "none"]
    /\ mainPc = IF program = "gcd" THEN "run" ELSE "setup"

SpecLoop == InitLoop /\ [][Next]_vars

\* ------------------------------------------ the producers after the stop flag
\* An observer loads stopFlag, finds it set, and notes where each producer
\* stands and how many messages have been submitted; it changes nothing else.
ObserveStop ==
    /\ stopFlag
    /\ ~atStop.observed
    /\ atStop' = [observed |-> TRUE, ppc |-> ppc, rr |-> rr,
                  sendAttempts |-> sendAttempts]
    /\ UNCHANGED <<cfgVars, stopFlag, clock, statVars, recVars, prodVars, workVars,
                   gcdVars, mq, mainVars>>

\* both programs with every producer of the bound, one consumer and a
\* reservoir of one sample
InitStop ==
    /\ Init
    /\ producers = NumProducers
    /\ consumers = 1
    /\ capacity = MaxRunCapacity

NextStop == Next \/ ObserveStop
SpecStop == InitStop /\ [][NextStop]_vars

\* =================================================================== claims
\* slots acquired (dispatch_semaphore_wait returned) whose block has not yet
\* signalled: held by a producer about to dispatch, by a queued block, or by a
\* running block
Outstanding ==
    Cardinality({p \in Producers : ppc[p] = "dispatch"})
    + SumLen(workerQueues, Workers)
    + Cardinality({w \in Workers : wpc[w] \notin {"idle", "none"}})

AllProducersExited == mainPc # "setup" /\ \A p \in 1..producers : ppc[p] = "done"

\* every producer has returned, and every consumer thread (mq) or every
\* dispatched block (gcd) has finished
AllWorkFinished ==
    /\ AllProducersExited
    /\ IF program = "gcd"
       THEN \A w \in 1..consumers : workerQueues[w] = <<>> /\ wpc[w] = "idle"
       ELSE \A w \in 1..consumers : wpc[w] = "done"

\* C1: gcd: the number of slots acquired and not yet released never exceeds
\* maxInFlight, in any reachable state, the shutdown release included.
C1_InFlightBounded == Outstanding <= maxInFlight

\* both slots are still in flight after main's shutdown release
C1_Witness ==
    /\ mainPc \in {"grace", "collect"}
    /\ maxInFlight = 2
    /\ Outstanding = maxInFlight

\* C2: gcd: once the stop flag is set, every producer exits and main reaches
\* the final collection, whether or not any completion block ever runs.
C2_ShutdownCompletes ==
    stopFlag ~> (AllProducersExited /\ mainPc \in {"collect", "snapshot", "done"})

\* C3: the reservoir buffer never holds more than capacity values.
C3_BufferBounded == Len(samplesNs) <= capacity

\* the buffer is full, more calls than capacity were made, two calls are in progress
C3_Witness ==
    /\ capacity > 0
    /\ Len(samplesNs) = capacity
    /\ seen > capacity
    /\ \E v, w \in Workers : v # w /\ wpc[v] = "rec_put" /\ wpc[w] # "idle"

\* C4 as stated: whenever seen >= capacity (capacity > 0) the buffer is full.
C4_FullOnceSeen == (capacity > 0 /\ seen >= capacity) => Len(samplesNs) = capacity

\* C4, amended: whenever seen >= capacity (capacity > 0) and no record() call
\* that obtained an index < capacity is still before its append, the buffer is
\* full.
C4_FullOnceFilled ==
    (/\ capacity > 0
     /\ seen >= capacity
     /\ \A w \in Workers : wpc[w] \notin {"rec_lock_fill", "rec_fill"})
    => Len(samplesNs) = capacity

\* the buffer is full while a later call is about to overwrite and another waits
C4_Witness ==
    /\ capacity > 0
    /\ seen > capacity
    /\ Len(samplesNs) = capacity
    /\ \E v, w \in Workers : wpc[v] = "rec_put" /\ wpc[w] = "rec_lock_put"

\* C5: after N <= capacity record() calls have all returned, the buffer holds
\* exactly the recorded values, as a multiset.
C5_AllRetained ==
    (seen <= capacity /\ \A w \in Workers : wpc[w] = "idle")
    => \A v \in 0..MaxClock : CountIn(samplesNs, v) = recorded[v]

\* capacity calls, with different values, have returned
C5_Witness ==
    /\ \A w \in Workers : wpc[w] = "idle"
    /\ capacity = 2 /\ seen = 2
    /\ recorded[0] = 1 /\ recorded[1] = 1

\* C6: message size >= header size: once all workers and completions have
\* finished, the buffer length is min(recvMessages, capacity).
C6_ReservoirSize ==
    (HasHeader /\ AllWorkFinished) => Len(samplesNs) = Min(recvMessages, capacity)

\* a finished run that received more messages than the reservoir holds
C6_Witness ==
    /\ HasHeader /\ AllWorkFinished
    /\ capacity = 1 /\ recvMessages = 2 /\ Len(samplesNs) = 1

\* C7: mq: after all producers have exited, sentMessages is the number of
\* successful sends, sentBytes is messageSize times that, and every send
\* attempt was counted by exactly one of sentMessages, sendEagain, sendErrors.
C7_SentCounted ==
    (program = "mq" /\ AllProducersExited)
    => /\ sentMessages = SumLen(sentSeqs, Producers)
       /\ sentBytes = messageSize * sentMessages
       /\ sentMessages + sendEagain + sendErrors = sendAttempts

\* two producers have exited after one successful and one timed-out send
C7_Witness ==
    /\ program = "mq" /\ AllProducersExited
    /\ producers = 2
    /\ sentMessages = 1 /\ sendEagain = 1

\* C8: mq: the sequence numbers of the messages one producer sends
\* successfully are 0, 1, 2, ... without gaps (a failed send is retried with
\* the same sequence number).
C8_SameMessageRetried ==
    HasHeader => \A p \in Producers :
                    \A k \in 1..Len(sentSeqs[p]) : sentSeqs[p][k] = k - 1

\* C9: gcd: the shutdown steps are ordered: the stop flag is set before the
\* join, all producers have exited before the first shutdown signal, the
\* semaphore has been signalled maxInFlight times before the grace period, and
\* the counters and the snapshot are taken only after it.
C9_ShutdownOrder ==
    /\ mainPc \in {"join", "release", "grace", "collect", "snapshot", "done"} => stopFlag
    /\ mainPc \in {"release", "grace", "collect", "snapshot", "done"}
         => \A p \in 1..producers : ppc[p] = "done"
    /\ mainPc \in {"run", "join"} => i = 0
    /\ mainPc = "release" => i < maxInFlight
    /\ mainPc \in {"grace", "collect", "snapshot", "done"} => i = maxInFlight
    /\ mainPc \in {"run", "join", "release", "grace", "collect"}
         => latCopyNs = <<>> /\ exitStatus = -1
    /\ mainPc \in {"run", "join", "release", "grace"} => sent = 0 /\ recv = 0

\* main is in the middle of the shutdown release after messages were sent
C9_Witness ==
    /\ mainPc = "release" /\ i = 1 /\ maxInFlight = 2
    /\ producers = 2 /\ sentMessages = 2

\* C10: mq: a producer or consumer leaves its loop only after the stop flag is
\* set, whatever the send and receive outcomes, and a run that has started
\* reaches the final collection and exits with status 0.
C10_ErrorsContained ==
    /\ [](\A p \in Producers : ppc[p] = "done" => stopFlag)
    /\ [](\A w \in Workers : wpc[w] = "done" => stopFlag)
    /\ (mainPc = "run") ~> (mainPc = "done" /\ exitStatus = 0)

\* the run has exited with 0 after a hard send error, a hard receive error
\* and a receive timeout
C10_Witness ==
    /\ program = "mq" /\ mainPc = "done" /\ exitStatus = 0
    /\ sendErrors = 1 /\ recvErrors = 1 /\ recvEagain = 1


\* a record() call is somewhere between its fetch_add and its return
InRecord(w) == wpc[w] \in {"rec_fetch", "rec_lock_fill", "rec_fill", "rec_draw",
                           "rec_rng", "rec_lock_put", "rec_put"}

\* main has printed the summary and returned 0
Reported == mainPc = "done" /\ exitStatus = 0

\* C11: with a message size below the header size, record() is never called in
\* either program: seen stays 0, the buffer stays empty, the percentile result
\* is empty and the summary says that the latency is not available.
C11_NoSamplesWithoutHeader ==
    messageSize < SizeofMsgHeader =>
        /\ seen = 0
        /\ samplesNs = <<>>
        /\ \A v \in 0..MaxClock : recorded[v] = 0
        /\ \A w \in Workers : ~InRecord(w)
        /\ Reported => /\ pctUs = <<>>
                       /\ summary = [printed |-> TRUE, available |-> FALSE, values |-> <<>>]

\* two headerless messages were received and the summary is out
C11_Witness ==
    /\ messageSize < SizeofMsgHeader
    /\ recvMessages = 2
    /\ Reported
    /\ summary.printed /\ ~summary.available

\* C12: with capacity 0 every record() call returns right after its fetch_add
\* and leaves the buffer empty, and the final percentile result is empty.
C12_ZeroCapacityNoOp ==
    capacity = 0 =>
        /\ samplesNs = <<>>
        /\ mtx \in {0, -1}
        /\ \A w \in Workers : InRecord(w) => wpc[w] = "rec_fetch"
        /\ Reported => pctUs = <<>>

\* two calls were made with capacity 0 and main has reported
C12_Witness ==
    /\ capacity = 0
    /\ seen = 2
    /\ recorded[0] + recorded[1] = 2
    /\ Reported
    /\ pctUs = <<>>

\* C13: the five values computePercentiles returns for a non-empty sample are
\* non-decreasing in quantile order: p50 <= p90 <= p95 <= p99 <= p99.9.
C13_PercentilesOrdered ==
    pctUs # <<>> =>
        \A k \in 1..(Len(pctUs) - 1) : DLeq[pctUs[k].second, pctUs[k + 1].second]

\* the report has run on the snapshot
ReportDone == mainPc \in {"pct_done", "pct_at"}

\* C14: computePercentiles returns no pair for an empty snapshot and five pairs
\* for a non-empty one; the empty result is printed as "not available" in the
\* summary and as NaN, never as a number, in the CSV row.
C14_EmptyStaysEmpty ==
    ReportDone =>
        /\ latCopyNs = <<>> =>
              /\ pctUs = <<>>
              /\ summary = [printed |-> TRUE, available |-> FALSE, values |-> <<>>]
              /\ csvRow.written => \A k \in 1..5 : csvRow.fields[k] = NanText
        /\ latCopyNs # <<>> =>
              /\ Len(pctUs) = 5
              /\ summary.available /\ Len(summary.values) = 5
              /\ csvRow.written => \A k \in 1..5 : ~csvRow.fields[k].nan

\* the report of an empty snapshot, with a CSV row written
C14_Witness ==
    /\ mainPc = "pct_done"
    /\ latCopyNs = <<>>
    /\ pctUs = <<>>
    /\ csvRow.written

\* every record() call has returned
Quiescent == \A w \in Workers : wpc[w] = "idle"

\* C15: reservoir sampling law, the instance N = capacity + 1 with distinct
\* values.  Only the call with index = capacity draws, and the law gives its
\* value the probability capacity / N, which is the probability of a draw
\* r < capacity: so in every interleaving a draw r < capacity must leave the
\* value in the final buffer.  The other calls only append, so the value is in
\* the final buffer exactly if it is in the buffer when the drawing call
\* leaves its locked section.
C15_DrawnValueKept ==
    [][\A w \in Workers :
         (/\ wpc[w] = "rec_put" /\ wpc'[w] # "rec_put"
          /\ capacity >= 1
          /\ seen = capacity + 1
          /\ \A u \in 0..MaxClock : recorded[u] <= 1)
         => CountIn(samplesNs', valueNs[w]) = 1]_vars

\* C16: a call with index >= capacity that drew r < capacity has stored its
\* value at position r when it returns; one that drew r >= capacity leaves the
\* buffer as it is.
C16_OverwriteStored ==
    [][\A w \in Workers :
         /\ (wpc[w] = "rec_put" /\ wpc'[w] # "rec_put")
               => (pos[w] < Len(samplesNs') /\ samplesNs'[pos[w] + 1] = valueNs[w])
         /\ (wpc[w] = "rec_rng" /\ wpc'[w] \notin {"rec_rng", "rec_lock_put"})
               => samplesNs' = samplesNs]_vars

\* C17: a record() call that reads or writes the buffer or the random
\* generator holds the mutex, so no two calls do so at the same time.
C17_SharedStateLocked ==
    \A w \in Workers : wpc[w] \in {"rec_fill", "rec_put", "rec_rng"} => mtx = w

\* every thread main started has left its loop
AllThreadsExited ==
    /\ \A p \in 1..producers : ppc[p] = "done"
    /\ \A w \in 1..consumers : wpc[w] = "done"

\* C18: mqueue, fair scheduling: once the stop flag is set every producer and
\* every consumer leaves its loop and main reaches the final collection (or
\* has returned 2 because the queue could not be opened).
C18_StopEndsThreads ==
    stopFlag ~> \/ mainPc = "done" /\ exitStatus = 2
                \/ AllThreadsExited /\ mainPc \in {"collect", "snapshot", "done"}

\* a send on the full queue and a receive on the empty queue have timed out,
\* and every thread is out of its loop
C18_Witness ==
    /\ stopFlag
    /\ AllThreadsExited
    /\ mainPc = "collect"
    /\ sendEagain >= 1
    /\ recvEagain >= 1

\* C19: gcd: once main has read the final counters no dispatched block is
\* pending or running, so nothing changes the counters or the reservoir after
\* the collection.
C19_CollectAfterBlocks ==
    mainPc \in {"snapshot", "done"} =>
        \A w \in Workers : workerQueues[w] = <<>> /\ wpc[w] \in {"idle", "none"}

\* the smallest and the largest value of a non-empty sequence
SeqMin(s) == CHOOSE v \in {s[k] : k \in 1..Len(s)} : \A k \in 1..Len(s) : v <= s[k]
SeqMax(s) == CHOOSE v \in {s[k] : k \in 1..Len(s)} : \A k \in 1..Len(s) : v >= s[k]

\* C20: at(q) on a sorted non-empty sample equals the interpolation between
\* the order statistics at floor(p) and ceil(p), p = q * (n - 1), weighted by
\* the fractional part and divided by 1000; q = 0 gives the minimum, q = 1 the
\* maximum; idx and idx2 are valid indices.
C20_AtInterpolates ==
    mainPc = "pct_at" =>
        /\ AtIdx(latCopyNs, atPct) \in 0..(Len(latCopyNs) - 1)
        /\ AtIdx2(latCopyNs, atPct) \in 0..(Len(latCopyNs) - 1)
        /\ atUs = DDiv[Interpolate(latCopyNs, atPct, DCeil[AtPos(latCopyNs, atPct)]), 1000]
        /\ atPct = DZero => atUs = DDiv[DFromInt[SeqMin(latCopyNs)], 1000]
        /\ atPct = DFromInt[1] => atUs = DDiv[DFromInt[SeqMax(latCopyNs)], 1000]

\* a quantile strictly between two different order statistics of three
C20_Witness ==
    /\ mainPc = "pct_at"
    /\ Len(latCopyNs) = 3
    /\ latCopyNs[1] < latCopyNs[2] /\ latCopyNs[2] < latCopyNs[3]
    /\ AtFrac(latCopyNs, atPct) # DZero
    /\ AtIdx(latCopyNs, atPct) = 1

\* C21: the orchestrator raises the stop condition as soon as the configured
\* duration has elapsed, whatever the print interval: when main leaves the timed
\* loop without an external stop request, exactly durationSeconds have elapsed.
C21_StopAtDuration ==
    [][(mainPc = "run" /\ mainPc' = "join" /\ ~stopFlag)
         => elapsed = durationSeconds]_vars

\* C22: a record() call that obtained an index < capacity finds, once it holds
\* the lock, the buffer strictly below capacity, so in both programs and for
\* every random draw the locked body appends the value: the else branch of
\* mq_benchmark.cpp is never taken and the two versions take the same step.
C22_FillAlwaysAppends ==
    \A w \in Workers :
       wpc[w] = "rec_fill" =>
          /\ index[w] < capacity
          /\ Len(samplesNs) < capacity
          /\ \A r \in 0..index[w] :
                FillResult(samplesNs, valueNs[w], r) = Append(samplesNs, valueNs[w])

\* an mq call holds the lock in the index < capacity branch after a call with a
\* later index has already appended, while another call is inside record()
C22_Witness ==
    /\ program = "mq"
    /\ \E w \in Workers :
         /\ wpc[w] = "rec_fill"
         /\ index[w] < Len(samplesNs)
         /\ \E v \in Workers \ {w} : InRecord(v)

\* C23: in every reachable state of the gcd program the signed difference
\* sentMessages - recvMessages is at most maxInFlight: a message is counted as
\* sent after its slot was acquired and as received before its slot is released.
C23_SentMinusRecvBounded ==
    program = "gcd" => sentMessages - recvMessages <= maxInFlight

\* every slot is taken by a message that is counted as sent and not yet as
\* received, with more than one slot configured
C23_Witness ==
    /\ program = "gcd"
    /\ maxInFlight > 1
    /\ sentMessages - recvMessages = maxInFlight

\* C24: in the mq program started on an empty queue, once all threads are
\* joined the difference sentMessages - recvMessages, and the difference of
\* the values main reads at the collection, is the number of messages left in
\* the queue, between 0 and the queue's maximum; no consumer is left to
\* receive them.
C24_UndeliveredLeftInQueue ==
    (program = "mq" /\ mainPc \in {"collect", "snapshot", "done"} /\ exitStatus # 2)
    => /\ sentMessages - recvMessages = Len(mq)
       /\ mainPc # "collect" => sent - recv = Len(mq)
       /\ 0 <= Len(mq) /\ Len(mq) <= maxMessages
       /\ \A w \in 1..consumers : wpc[w] = "done"

\* main has reported a run in which a message was received and another one
\* was left in the queue
C24_Witness ==
    /\ program = "mq"
    /\ Reported
    /\ recv >= 1
    /\ sent - recv >= 1
    /\ Len(mq) >= 1

\* how far a producer is from its return: the steps of one iteration left, then
\* the test of the flag
StepsLeft(pc) == CASE pc = "wait" -> 4
                   [] pc = "send" -> 3
                   [] pc = "dispatch" -> 3
                   [] pc = "count" -> 2
                   [] pc \in {"loop", "none"} -> 1    \* none: not yet started
                   [] OTHER -> 0

\* the producers that had passed the test of the flag and not yet submitted
\* their message when the observer looked
PastCheck == {p \in 1..producers : atStop.ppc[p] \in {"wait", "send", "dispatch"}}

\* C25: after the stop flag is set each producer starts at most one further
\* send: a producer only moves on towards its return and never begins another
\* iteration, the messages submitted after the stop are at most one for each
\* producer that had passed the test of the flag, and in gcd each of these is
\* dispatched and counted before its producer returns.
C25_OneMoreSendAfterStop ==
    atStop.observed =>
       /\ \A p \in 1..producers : StepsLeft(ppc[p]) <= StepsLeft(atStop.ppc[p])
       /\ sendAttempts - atStop.sendAttempts <= Cardinality(PastCheck)
       /\ rr - atStop.rr <= Cardinality(PastCheck)
       /\ (program = "gcd" /\ AllProducersExited) =>
             /\ rr - atStop.rr = Cardinality(PastCheck)
             /\ sentMessages = rr

\* a gcd producer was waiting for the semaphore when the stop flag was seen
\* set; it has since dispatched and counted its message and returned
C25_Witness ==
    /\ program = "gcd"
    /\ atStop.observed
    /\ \E p \in 1..producers :
         /\ atStop.ppc[p] = "wait"
         /\ ppc[p] = "done"
    /\ rr = atStop.rr + 1
    /\ sentMessages = rr

====
